---------------------------- MODULE Spec2Model ----------------------------
(***************************************************************************)
(* Model of s3_file_watcher_bot.py: the monitor_bucket reconciliation loop *)
(* (a discord.ext.tasks loop), the two JSON state files it persists to,    *)
(* and the two collaborators it talks to (the S3 listing and the Discord   *)
(* channel).                                                               *)
(*                                                                         *)
(* A tick is split at its suspension points (the awaits) and, inside the   *)
(* persistence step, at the points where a crash leaves a different file   *)
(* content on disk.  Everything between two such points is one action.     *)
(***************************************************************************)
EXTENDS Integers, Sequences, FiniteSets, TLC

\* Number of distinct object keys the bucket can hold in the model.
NumKeys == 2

\* Number of message ids the channel hands out before every further send fails.
MaxId == 2

\* Number of times the process is killed.
MaxCrashes == 2

Keys == 1..NumKeys

Range(s) == {s[i] : i \in DOMAIN s}

\* The listings list_objects_v2 can return for a bucket holding the keys B:
\* every key once, in any order.
Listings(B) ==
    {s \in [1..Cardinality(B) -> B] : \A i, j \in DOMAIN s : s[i] = s[j] => i = j}

Count(k, s) == Cardinality({i \in DOMAIN s : s[i] = k})

EmptyMap == [k \in {} |-> 0]

VARIABLES
    channel,         \* the messages present in the channel: [key, id]
    next_id,         \* the id the channel gives to the next message
    disk_sent,       \* sent_files.json: [valid, data]
    disk_map,        \* file_messages.json: [valid, data]
    running,         \* monitor_bucket was started by on_ready
    pc,              \* position of the loop task
    sent_files,      \* global sent_files
    file_messages,   \* global file_messages (key -> message id)
    contents,        \* local: the fetched listing
    new_files,       \* local: new_files
    idx,             \* local: position of the send loop in new_files
    deleted_files,   \* local: deleted_files
    pending,         \* local: keys of deleted_files not iterated yet
    cur,             \* local: filename whose retraction is awaited
    down_from,       \* position at which the process was killed
    crashes,         \* number of times the process was killed
    lost,            \* messages sent in the tick the last kill interrupted before
                     \* its save, until their key is removed from the known keys
    in_flight,       \* invocations of the handler that have not returned
    stale,           \* keys whose map entry is older than the key's last send
    disk_stale,      \* the same for the entries of the map on disk
    gone,            \* key -> the id its entry held when the removal step dropped it
    old_disk,        \* during the persistence step: the files before it
    tick,            \* observation of the current (or last) tick
    owed,            \* keys found new and not notified since, still listed
    sends_in_interval \* per key: notifications since it last became known

vars == <<channel, next_id, disk_sent, disk_map, running, pc,
          sent_files, file_messages, contents, new_files, idx, deleted_files,
          pending, cur, down_from, crashes, lost, in_flight, stale,
          disk_stale, gone, old_disk, tick, owed, sends_in_interval>>

env == <<channel, next_id>>

disk == <<disk_sent, disk_map>>

life == <<down_from, crashes, lost>>

hist == <<stale, disk_stale, gone>>

locals == <<contents, new_files, idx, deleted_files, pending, cur>>

-----------------------------------------------------------------------------
(* Persistence: load_* / save_* *)

\* A state file: absent or holding a complete JSON document (valid), or
\* truncated by open(path, "w") and not yet written and closed (not valid).
File(data) == [valid |-> TRUE, data |-> data]

Truncated(data) == [valid |-> FALSE, data |-> data]

\* load_sent_files: set(json.load(f)), or set() when the file does not exist.
load_sent_files == disk_sent.data

\* load_file_messages: json.load(f), or {} when the file does not exist.
load_file_messages == disk_map.data

NoTick == [fetch |-> "none", listing |-> {}, outcome |-> "none", fails |-> 0,
           again |-> FALSE, ready_again |-> FALSE,
           sent |-> <<>>, retr |-> <<>>, clean |-> TRUE,
           known0 |-> {}, mapped0 |-> TRUE]

\* What stays observable of a tick once it has returned.
Returned(t, outcome) ==
    [NoTick EXCEPT !.fetch = t.fetch, !.listing = t.listing,
                   !.outcome = outcome, !.fails = t.fails,
                   !.again = t.again]

ResetLocals ==
    /\ contents' = <<>>
    /\ new_files' = <<>>
    /\ idx' = 1
    /\ deleted_files' = {}
    /\ pending' = {}
    /\ cur' = 0

Init ==
    /\ channel = {}
    /\ next_id = 1
    /\ disk_sent = File({})
    /\ disk_map = File(EmptyMap)
    /\ running = FALSE
    /\ pc = "idle"
    /\ sent_files = load_sent_files
    /\ file_messages = load_file_messages
    /\ contents = <<>>
    /\ new_files = <<>>
    /\ idx = 1
    /\ deleted_files = {}
    /\ pending = {}
    /\ cur = 0
    /\ down_from = "none"
    /\ crashes = 0
    /\ lost = {}
    /\ in_flight = 0
    /\ stale = {}
    /\ disk_stale = {}
    /\ gone = [k \in Keys |-> 0]
    /\ old_disk = <<>>
    /\ tick = NoTick
    /\ owed = {}
    /\ sends_in_interval = [k \in Keys |-> 0]

-----------------------------------------------------------------------------
(* The collaborators *)

\* Somebody else deletes a notification from the channel (the case the
\* handler of discord.NotFound is written for).  The loop looks at the
\* channel only in a retraction, and the message it retracts was sent in an
\* earlier tick, so a deletion during a tick is the same deletion before it.
ExternalDelete ==
    /\ pc \in {"idle", "down"}
    /\ \E m \in channel : channel' = channel \ {m}
    /\ UNCHANGED <<next_id, disk, running, pc, sent_files, file_messages,
                   locals, life, hist, in_flight, old_disk, tick, owed,
                   sends_in_interval>>

\* The places where the handler is suspended on an await (lines 129 and
\* 139-140); only there can another coroutine of the event loop run.
Suspended == {"send", "retract"}

\* Lines 157-160, on_ready: monitor_bucket.start().  The event fires at
\* login and again after every reconnect that could not resume, between
\* ticks or while the handler is suspended.  start() launches the loop task
\* when there is none; when it is running start() raises RuntimeError, which
\* ends on_ready and starts nothing.  tick.ready_again marks a ready event
\* that arrived during the await the handler is suspended on.
OnReady ==
    /\ pc \in {"idle"} \cup Suspended
    /\ running' = TRUE
    /\ tick' = IF running /\ pc \in Suspended
               THEN [tick EXCEPT !.ready_again = TRUE] ELSE tick
    /\ UNCHANGED <<env, disk, pc, sent_files, file_messages, locals,
                   life, hist, in_flight, old_disk, owed, sends_in_interval>>

-----------------------------------------------------------------------------
(* monitor_bucket *)

\* Mutant: the scan forgets sent_files.add(key).
ScanKnown_noadd(listing, known) == known

\* Lines 112-116: the keys known after the scan of the listing.
ScanKnown(listing, known) == known \cup Range(listing)

RECURSIVE Reverse(_)
Reverse(s) == IF s = <<>> THEN <<>> ELSE Append(Reverse(Tail(s)), Head(s))

\* Mutant: the new objects are processed last listed first.
NewFiles_reversed(listing, known) ==
    Reverse(SelectSeq(listing, LAMBDA k : k \notin known))

\* Mutant: a listed key counts as new as long as no notification id is
\* recorded for it.
NewFiles_unmapped(listing, known) ==
    SelectSeq(listing, LAMBDA k : k \notin DOMAIN file_messages)

\* Mutant: the scan does not test "key not in sent_files".
NewFiles_unfiltered(listing, known) == listing

\* Lines 111-116: new_files, the listed objects whose key was not known, in
\* listing order.
NewFiles(listing, known) == SelectSeq(listing, LAMBDA k : k \notin known)

\* Mutant: deleted_files = sent_files.
DeletedFiles_all(known, current_files) == known

\* Line 119: deleted_files = sent_files - current_files
DeletedFiles(known, current_files) == known \ current_files

\* Mutant: the id that the send returned is not recorded.
RecordMessage_skip(fm, filename, message_id) == fm

\* Line 132: file_messages[filename] = message_id
RecordMessage(fm, filename, message_id) ==
    [k \in DOMAIN fm \cup {filename} |->
        IF k = filename THEN message_id ELSE fm[k]]

\* Mutant: the entry is not deleted.
DropMessage_keep(fm, filename) == fm

\* Line 145: del file_messages[filename]
DropMessage(fm, filename) == [k \in DOMAIN fm \ {filename} |-> fm[k]]

\* Mutant: the key is not discarded.
Discard_keep(known, filename) == known

\* Line 146: sent_files.discard(filename)
Discard(known, filename) == known \ {filename}

\* The tick returns: its locals die and the loop sleeps until the next one.
Return(outcome) ==
    /\ pc' = "idle"
    /\ tick' = Returned(tick, outcome)
    /\ in_flight' = IF in_flight > 0 THEN in_flight - 1 ELSE 0
    /\ gone' = [k \in Keys |-> IF k \in sent_files THEN 0 ELSE gone[k]]
    /\ old_disk' = <<>>
    /\ ResetLocals

\* Mutant: the timer starts an iteration every interval, whether or not the
\* handler of the iteration before has returned.
CanStart_timer == running /\ pc # "down"

\* Line 102, tasks.loop(seconds=8): the loop task awaits the handler and only
\* then sleeps until the next iteration is due, so an iteration starts when
\* the loop runs and no handler is executing.
CanStart == running /\ pc = "idle"

\* Mutant: a failed fetch is taken for an empty bucket.
TickFetchFail_empty ==
    /\ CanStart
    /\ pc' = "idle"
    /\ sent_files' = {}
    /\ file_messages' = EmptyMap
    /\ tick' = [NoTick EXCEPT !.fetch = "failed", !.outcome = "fetch_failed",
                              !.fails = IF tick.fails < 2 THEN tick.fails + 1 ELSE 2]
    /\ UNCHANGED <<env, disk, running, locals, life, hist, in_flight,
                   old_disk, owed, sends_in_interval>>

\* Lines 106, 153-154: list_objects_v2 raises; the handler prints and the tick
\* returns.
TickFetchFail ==
    /\ CanStart
    /\ pc' = "idle"
    /\ tick' = [NoTick EXCEPT !.fetch = "failed", !.outcome = "fetch_failed",
                              !.fails = IF tick.fails < 2 THEN tick.fails + 1 ELSE 2]
    /\ UNCHANGED <<env, disk, running, sent_files, file_messages, locals,
                   life, hist, in_flight, old_disk, owed, sends_in_interval>>

\* Lines 106-121 and, when nothing is new and nothing was deleted, 124-149:
\* the fetch succeeds (the listing holds any keys, in any order); the scan
\* marks every listed key known.
TickFetchOk ==
    /\ CanStart
    /\ \E B \in SUBSET Keys : \E listing \in Listings(B) :
         LET current_files == Range(listing)
             nf == NewFiles(listing, sent_files)
             sf == ScanKnown(listing, sent_files)
             df == DeletedFiles(sf, current_files)
             t  == [NoTick EXCEPT
                      !.fetch = "ok", !.listing = current_files,
                      !.outcome = "running",
                      !.again = (tick.fetch = "ok" /\ tick.listing = current_files),
                      !.known0 = sent_files,
                      !.mapped0 = (DOMAIN file_messages = sent_files)]
         IN  /\ sent_files' = sf
             /\ owed' = (owed \cap current_files) \cup (current_files \ sent_files)
             /\ sends_in_interval' =
                   [k \in Keys |-> IF k \in sf \ sent_files THEN 0
                                   ELSE sends_in_interval[k]]
             /\ IF nf # <<>> \/ df # {}
                  THEN /\ contents' = listing
                       /\ new_files' = nf
                       /\ idx' = 1
                       /\ deleted_files' = df
                       /\ pending' = df
                       /\ cur' = 0
                       /\ pc' = IF nf # <<>> THEN "send" ELSE "delete"
                       /\ tick' = t
                       /\ in_flight' = IF in_flight < 2 THEN in_flight + 1 ELSE 2
                  ELSE /\ ResetLocals
                       /\ pc' = "idle"
                       /\ tick' = Returned(t, "completed")
                       /\ in_flight' = in_flight
    /\ UNCHANGED <<env, disk, running, file_messages, life, hist, old_disk>>

\* Mutant: both files are saved after every send, inside the loop over
\* new_files.
SendOk_saved ==
    /\ pc = "send"
    /\ next_id <= MaxId
    /\ LET filename == new_files[idx]
       IN  /\ channel' = channel \cup {[key |-> filename, id |-> next_id]}
           /\ file_messages' = RecordMessage(file_messages, filename, next_id)
           /\ next_id' = next_id + 1
           /\ stale' = stale \ {filename}
           /\ disk_stale' = disk_stale \cup ({filename} \cap DOMAIN disk_map.data)
           /\ tick' = [tick EXCEPT !.sent = Append(@, filename),
                                 !.ready_again = FALSE]
           /\ owed' = owed \ {filename}
           /\ sends_in_interval' =
                 [sends_in_interval EXCEPT ![filename] = IF @ < 2 THEN @ + 1 ELSE @]
    /\ disk_sent' = File(sent_files)
    /\ disk_map' = File(file_messages')
    /\ idx' = idx + 1
    /\ pc' = IF idx < Len(new_files) THEN "send"
             ELSE IF deleted_files # {} THEN "delete" ELSE "save_sent"
    /\ UNCHANGED <<running, sent_files, contents, new_files,
                   deleted_files, pending, cur, life, gone, in_flight,
                   old_disk>>

\* Lines 98-99, 129-132: channel.send returns the message; its id is recorded.
SendOk ==
    /\ pc = "send"
    /\ next_id <= MaxId
    /\ LET filename == new_files[idx]
       IN  /\ channel' = channel \cup {[key |-> filename, id |-> next_id]}
           /\ file_messages' = RecordMessage(file_messages, filename, next_id)
           /\ next_id' = next_id + 1
           /\ stale' = stale \ {filename}
           /\ disk_stale' = disk_stale \cup ({filename} \cap DOMAIN disk_map.data)
           /\ tick' = [tick EXCEPT !.sent = Append(@, filename),
                                 !.ready_again = FALSE]
           /\ owed' = owed \ {filename}
           /\ sends_in_interval' =
                 [sends_in_interval EXCEPT ![filename] = IF @ < 2 THEN @ + 1 ELSE @]
    /\ idx' = idx + 1
    /\ pc' = IF idx < Len(new_files) THEN "send"
             ELSE IF deleted_files # {} THEN "delete" ELSE "save_sent"
    /\ UNCHANGED <<disk, running, sent_files, contents, new_files,
                   deleted_files, pending, cur, life, gone, in_flight,
                   old_disk>>

\* Mutant: the handler of a failed send takes the key whose send failed and
\* the new keys not reached out of the known-key set again.
SendFail_rollback ==
    /\ pc = "send"
    /\ sent_files' = sent_files \ {new_files[i] : i \in idx..Len(new_files)}
    /\ Return("aborted")
    /\ UNCHANGED <<env, disk, running, file_messages, life, stale,
                   disk_stale, owed, sends_in_interval>>

\* Lines 98, 153-154: channel.send raises (or the channel is not cached and
\* channel is None); the exception leaves the tick through the outer handler.
SendFail ==
    /\ pc = "send"
    /\ Return("aborted")
    /\ UNCHANGED <<env, disk, running, sent_files, file_messages, life,
                   stale, disk_stale, owed, sends_in_interval>>

\* Lines 136-137, 146: the loop over deleted_files takes its next filename
\* (a set: any order).  With a stored id the retraction is awaited; without
\* one the key is only forgotten.
HandleDeleted ==
    /\ pc = "delete"
    /\ \E filename \in pending :
         IF filename \in DOMAIN file_messages
           THEN /\ pc' = "retract"
                /\ cur' = filename
                /\ tick' = [tick EXCEPT !.retr = Append(@, filename)]
                /\ UNCHANGED <<sent_files, pending, sends_in_interval, lost>>
           ELSE /\ sent_files' = Discard(sent_files, filename)
                /\ lost' = {m \in lost : m.key # filename}
                /\ sends_in_interval' = [sends_in_interval EXCEPT ![filename] = 0]
                /\ pending' = pending \ {filename}
                /\ pc' = IF pending = {filename} THEN "save_sent" ELSE "delete"
                /\ UNCHANGED <<cur, tick>>
    /\ UNCHANGED <<env, disk, running, file_messages, contents, new_files, idx,
                   deleted_files, down_from, crashes, hist, in_flight,
                   old_disk, owed>>

\* Lines 145-146 after any outcome of the retraction.
Forget(clean) ==
    /\ file_messages' = DropMessage(file_messages, cur)
    /\ sent_files' = Discard(sent_files, cur)
    /\ sends_in_interval' = [sends_in_interval EXCEPT ![cur] = 0]
    /\ pending' = pending \ {cur}
    /\ cur' = 0
    /\ pc' = IF pending = {cur} THEN "save_sent" ELSE "delete"
    /\ tick' = [tick EXCEPT !.clean = @ /\ clean, !.ready_again = FALSE]
    /\ stale' = stale \ {cur}
    /\ gone' = [gone EXCEPT ![cur] = file_messages[cur]]
    /\ lost' = {m \in lost : m.key # cur}
    /\ UNCHANGED <<next_id, disk, disk_stale, running, contents, new_files,
                   idx, deleted_files, down_from, crashes, in_flight,
                   old_disk, owed>>

Stored == [key |-> cur, id |-> file_messages[cur]]

\* Lines 139-140: fetch_message and delete succeed.
RetractOk ==
    /\ pc = "retract"
    /\ Stored \in channel
    /\ channel' = channel \ {Stored}
    /\ Forget(TRUE)

\* Lines 141-142: discord.NotFound, the message is gone already.
RetractNotFound ==
    /\ pc = "retract"
    /\ Stored \notin channel
    /\ channel' = channel
    /\ Forget(FALSE)

\* Mutant: an error of the retraction other than NotFound is not caught in
\* the loop and reaches the handler of the whole tick.
RetractError_abort ==
    /\ pc = "retract"
    /\ Return("aborted")
    /\ UNCHANGED <<env, disk, running, sent_files, file_messages, life,
                   stale, disk_stale, owed, sends_in_interval>>

\* Lines 143-144: any other exception is printed; the message stays.
RetractError ==
    /\ pc = "retract"
    /\ channel' = channel
    /\ Forget(FALSE)

SavePcs == {"save_sent", "write_sent", "save_map", "write_map"}

\* Lines 38, 52: open(path, "w") truncates the file.
\* Lines 39, 53: json.dump and the close of the with block write it.
\* The file system calls themselves are taken to succeed.
SaveSentOpen ==
    /\ pc = "save_sent"
    /\ old_disk' = <<disk_sent, disk_map>>
    /\ disk_sent' = Truncated(disk_sent.data)
    /\ pc' = "write_sent"
    /\ UNCHANGED <<env, disk_map, running, sent_files, file_messages, locals,
                   life, hist, in_flight, tick, owed, sends_in_interval>>

SaveSentWrite ==
    /\ pc = "write_sent"
    /\ disk_sent' = File(sent_files)
    /\ pc' = "save_map"
    /\ UNCHANGED <<env, disk_map, running, sent_files, file_messages, locals,
                   life, hist, in_flight, old_disk, tick, owed,
                   sends_in_interval>>

SaveMapOpen ==
    /\ pc = "save_map"
    /\ disk_map' = Truncated(disk_map.data)
    /\ pc' = "write_map"
    /\ UNCHANGED <<env, disk_sent, running, sent_files, file_messages, locals,
                   life, hist, in_flight, old_disk, tick, owed,
                   sends_in_interval>>

SaveMapWrite ==
    /\ pc = "write_map"
    /\ disk_map' = File(file_messages)
    /\ Return("completed")
    /\ disk_stale' = stale
    /\ UNCHANGED <<env, disk_sent, running, sent_files, file_messages,
                   life, stale, owed, sends_in_interval>>

-----------------------------------------------------------------------------
(* Process death and restart *)

\* The process is killed (or the machine loses power) at any point.  What the
\* memory held is kept in the variables, where nothing reads it, until the
\* restart replaces it.
Crash ==
    /\ pc # "down"
    /\ crashes < MaxCrashes
    /\ crashes' = crashes + 1
    /\ down_from' = pc
    /\ lost' = IF pc \in {"send", "delete", "retract", "save_sent"}
               THEN {[key |-> k, id |-> file_messages[k]] : k \in Range(tick.sent)}
               ELSE {}
    /\ pc' = "down"
    /\ running' = FALSE
    /\ UNCHANGED <<env, disk, sent_files, file_messages, locals, hist,
                   in_flight, old_disk, tick, owed, sends_in_interval>>

\* Lines 28-33, 42-47, 57-58: the module is loaded again.  json.load raises on
\* a truncated file, and the process does not come up.
Restart ==
    /\ pc = "down"
    /\ disk_sent.valid /\ disk_map.valid
    /\ sent_files' = load_sent_files
    /\ file_messages' = load_file_messages
    /\ pc' = "idle"
    /\ ResetLocals
    /\ old_disk' = <<>>
    /\ in_flight' = 0
    /\ stale' = disk_stale
    /\ gone' = [k \in Keys |-> 0]
    /\ tick' = NoTick
    /\ owed' = {}
    /\ sends_in_interval' = [k \in Keys |-> 0]
    /\ UNCHANGED <<env, disk, disk_stale, running, life>>

-----------------------------------------------------------------------------

Step ==
    \/ TickFetchFail
    \/ TickFetchOk
    \/ SendOk
    \/ SendFail
    \/ HandleDeleted
    \/ RetractOk
    \/ RetractNotFound
    \/ RetractError
    \/ SaveSentOpen
    \/ SaveSentWrite
    \/ SaveMapOpen
    \/ SaveMapWrite

Next ==
    \/ ExternalDelete
    \/ OnReady
    \/ Step

Spec == Init /\ [][Next]_vars

\* The event loop runs the timer and resumes every await that returns: the
\* loop task keeps taking steps.  Which outcome a call has is not fair.
FairSpec == Spec /\ WF_vars(OnReady) /\ WF_vars(Step)

NextCrash == Next \/ Crash \/ Restart

CrashSpec == Init /\ [][NextCrash]_vars

-----------------------------------------------------------------------------
(* The claims *)

Outstanding(k) == {m \in channel : m.key = k}

\* C1: every key that a fetched listing holds while the key is not known, and
\* that stays in all later listings, is eventually notified: a key that is
\* owed a notification does not stay owed for ever.
C1_AtLeastOnce == \A k \in Keys : (k \in owed) ~> (k \notin owed)

\* C2: while a key stays continuously in the known-key set, at most one
\* notification is sent for it.
C2_NoDuplicate == \A k \in Keys : sends_in_interval[k] <= 1

\* A later tick with work to do has run its loops: the key was known when the
\* tick began, was notified in an earlier tick and is listed still.
C2_Witness ==
    \E k \in Keys :
        /\ pc \in SavePcs
        /\ k \in tick.known0 /\ k \in tick.listing /\ k \in sent_files
        /\ sends_in_interval[k] = 1
        /\ Count(k, tick.sent) = 0

\* C3: at most one notification sent for a key is present in the channel.
C3_AtMostOneOutstanding == \A k \in Keys : Cardinality(Outstanding(k)) <= 1

\* C4: a tick whose fetch fails sends nothing, retracts nothing, changes
\* neither the known-key set, the map nor the files, and leaves the loop
\* ready for its next tick.
C4_FetchFailure ==
    [][TickFetchFail =>
         /\ UNCHANGED <<sent_files, file_messages, disk_sent, disk_map,
                        channel, next_id>>
         /\ tick'.sent = <<>> /\ tick'.retr = <<>>
         /\ pc' = "idle" /\ running']_vars

\* The second of two consecutive failed fetches has returned, with keys known.
C4_Witness ==
    /\ pc = "idle" /\ running
    /\ tick.outcome = "fetch_failed" /\ tick.fails = 2
    /\ sent_files # {}

\* C5: a tick that fetches the listing the tick before it fetched sends no
\* notification, attempts no retraction, leaves the known-key set as it found
\* it and does not reach the persistence step.
C5_Idempotent ==
    (tick.again /\ pc # "idle") =>
        /\ tick.sent = <<>> /\ tick.retr = <<>>
        /\ sent_files = tick.known0
        /\ pc \notin SavePcs

\* C6: from a known-key set where every key has a map entry, a tick whose
\* sends and retractions all succeed has, when its loops are over, sent one
\* notification for each listed key that was not known and for no other, and
\* attempted one retraction for each known key that is not listed and for no
\* other.
C6_SetDifference ==
    (pc \in SavePcs /\ tick.clean /\ tick.mapped0) =>
        \A k \in Keys :
            /\ Count(k, tick.sent) =
                 IF k \in tick.listing \ tick.known0 THEN 1 ELSE 0
            /\ Count(k, tick.retr) =
                 IF k \in tick.known0 \ tick.listing THEN 1 ELSE 0

\* Such a tick had both a key to announce and a key to retract.
C6_Witness ==
    /\ pc \in SavePcs /\ tick.clean /\ tick.mapped0
    /\ tick.known0 # {}
    /\ tick.sent # <<>> /\ tick.retr # <<>>

\* C7: once every tick fetches the same listing, the known-key set becomes
\* the listing's key set and stays so.
C7_Convergence ==
    \A B \in SUBSET Keys :
        <>[](tick.fetch = "ok" /\ tick.listing = B) => <>[](sent_files = B)

\* A tick that fetched the listing of the tick before it found the known-key
\* set different from it (an earlier tick was aborted) and has reconciled it.
C7_Witness ==
    /\ pc \in SavePcs
    /\ tick.again
    /\ tick.known0 # tick.listing
    /\ sent_files = tick.listing

\* C8: after a crash in the persistence step the files hold the complete
\* state of before the step or the complete state of after it.
C8_AtomicPersistence ==
    (pc = "down" /\ down_from \in {"write_sent", "save_map", "write_map"}) =>
        <<disk_sent, disk_map>> \in
            {old_disk, <<File(sent_files), File(file_messages)>>}

\* C9: when a tick has returned, completed or aborted by a send error, the
\* files hold the known-key set and the map of the memory.
C9_PersistedAfterTick ==
    (pc = "idle" /\ tick.outcome \in {"completed", "aborted"}) =>
        /\ disk_sent = File(sent_files)
        /\ disk_map = File(file_messages)

\* C10: every key with an entry in the map is in the known-key set.
C10_MapDomain == DOMAIN file_messages \subseteq sent_files

\* The tick is suspended on a retraction, with entries in the map.
C10_Witness ==
    /\ pc = "retract"
    /\ cur \in DOMAIN file_messages
    /\ Cardinality(DOMAIN file_messages) > 1

C12_RemovalRegardless ==
    /\ [](pc \in SavePcs =>
            \A k \in tick.known0 \ tick.listing :
                k \notin sent_files /\ k \notin DOMAIN file_messages)
    /\ [][(pc \in {"delete", "retract"}) =>
              (pc' \in {"delete", "retract", "save_sent"})]_vars
    /\ [][(pc = "write_map" /\ pc' = "idle") =>
              /\ disk_sent' = File(sent_files)
              /\ disk_map' = File(file_messages)
              /\ tick'.outcome = "completed"]_vars

\* Two keys have been retracted, not all retractions returned ok, and the
\* tick is in its save.
C12_Witness ==
    /\ pc = "write_map"
    /\ Len(tick.retr) = 2
    /\ ~tick.clean
    /\ sent_files = {}
    /\ file_messages = EmptyMap

\* C13: when a send raises, the tick ends in that step: nothing more is sent
\* and nothing is retracted in the tick, neither file is written, the keys
\* of the listing stay in sent_files, the ids of the sends that succeeded
\* earlier in the tick stay in file_messages, and the loop is free to start
\* its next tick.
C13_SendFailureAborts ==
    [][(pc = "send" /\ pc' = "idle") =>
          /\ tick'.outcome = "aborted"
          /\ tick.retr = <<>>
          /\ in_flight' = 0
          /\ UNCHANGED <<channel, next_id, disk_sent, disk_map, sent_files,
                         file_messages>>
          /\ tick.listing \subseteq sent_files'
          /\ \A k \in Range(tick.sent) : k \in DOMAIN file_messages'
          /\ running']_vars

\* A tick was aborted after one send had succeeded: the id of that send is
\* in the map and not on disk, the key whose send failed is known and not on
\* disk.
C13_Witness ==
    /\ pc = "idle"
    /\ running
    /\ tick.outcome = "aborted"
    /\ \E k1, k2 \in tick.listing :
           /\ k1 \in DOMAIN file_messages
           /\ k1 \notin DOMAIN disk_map.data
           /\ k2 \in sent_files \ DOMAIN file_messages
           /\ k2 \notin disk_sent.data

\* C14: a key that an earlier tick of the run found new and did not notify,
\* because its send raised or was not reached, and that every listing
\* fetched since contains (owed, known when the tick started), is not queued
\* for a send and receives no send in any later tick.
C14_NoRetry ==
    /\ [](pc # "idle" =>
            \A k \in owed \cap tick.known0 : k \notin Range(new_files))
    /\ [][\A k \in owed \cap tick.known0 :
              pc = "send" => Count(k, tick'.sent) = Count(k, tick.sent)]_vars

\* A later tick lists such a key again, has sent the notification of another
\* key and is in its save.
C14_Witness ==
    /\ pc \in SavePcs
    /\ tick.sent # <<>>
    /\ \E k \in owed \cap tick.known0 : k \in tick.listing

C16_RetractsStoredId == pc = "retract" => cur \notin stale

\* C17: within a tick the notifications sent so far are, in order, the first
\* keys of the fetched listing that were not known when the tick started,
\* and every send of the tick happens before the first retraction of the
\* tick is attempted.
C17_ListingOrder ==
    /\ [](pc # "idle" =>
            LET fresh == SelectSeq(contents, LAMBDA k : k \notin tick.known0)
            IN  /\ Len(tick.sent) <= Len(fresh)
                /\ tick.sent = SubSeq(fresh, 1, Len(tick.sent)))
    /\ [][(Len(tick'.sent) > Len(tick.sent)) => (tick.retr = <<>>)]_vars
    /\ [][(Len(tick'.retr) > Len(tick.retr)) =>
              (tick.sent = SelectSeq(contents, LAMBDA k : k \notin tick.known0))]_vars

\* Two notifications have been sent in one tick for a listing that is not in
\* key order.
C17_Witness ==
    /\ pc # "idle"
    /\ contents = <<2, 1>>
    /\ tick.sent = <<2, 1>>

\* C18: a key contained in the listing a tick fetched is, in that tick, never
\* queued for removal, never the target of a retraction, never taken out of
\* sent_files and never taken out of file_messages.
C18_PresentKeyKept ==
    /\ [](pc # "idle" =>
            \A k \in tick.listing :
                /\ k \in sent_files
                /\ k \notin deleted_files
                /\ Count(k, tick.retr) = 0
                /\ pc = "retract" => cur # k)
    /\ [][\A k \in tick'.listing :
              (k \in DOMAIN file_messages) => (k \in DOMAIN file_messages')]_vars

\* A tick has retracted the notification of a key that left the listing
\* while a key that was known with a notification id is still listed.
C18_Witness ==
    /\ pc \in SavePcs
    /\ tick.retr # <<>>
    /\ \E k \in tick.listing \cap tick.known0 : k \in DOMAIN file_messages

=============================================================================
